---- MODULE Spec2Model ----
(***************************************************************************)
(* State-machine model of the Aim Trainer engine (src/js/game.js).         *)
(*                                                                         *)
(* The private variables of the Game closure are the VARIABLES below.      *)
(* The browser's timer table (setInterval / setTimeout /                   *)
(* requestAnimationFrame) and localStorage are modelled explicitly,        *)
(* because the engine's behaviour depends on which callbacks are still     *)
(* scheduled.  A timer callback may fire at any time once scheduled.       *)
(*                                                                         *)
(* Every function of the source is an operator from a state record to a    *)
(* state record; an action applies one handler to the current state.       *)
(***************************************************************************)
EXTENDS FiniteSets, Integers, Sequences, TLC

VARIABLES
    isPlaying, isPaused, score, timeLeft, targetsHit, targetsMissed,
    accuracy, gameTimer, targetSpawnTimer, currentDifficulty, currentMode,
    leaderboard, activeTargets,
    intervals,      \* live setInterval timers of the host
    timeouts,       \* pending per-target expiry setTimeout callbacks
    frames,         \* pending requestAnimationFrame(render) callbacks
    storage,        \* localStorage['aimTrainerLeaderboard']
    nextTimerId,    \* next id handed out by setInterval
    nextTargetId,   \* serial standing for Date.now() + Math.random()
    left,           \* history: targets removed by hit or expiry this session
    missClicks,     \* history: clicks counted as a miss this session
    records,        \* history: number of leaderboard entries ever built
    lastEntry,      \* history: the entry built by the last saveToLeaderboard
    configChanges,  \* history: number of difficulty / mode changes applied
    ended,          \* history: the session was finished by endGame (Ended)
    isInitialized,
    eventsBound,    \* bindEvents has run: the listeners are attached
    canvasWidth,    \* gameCanvas.width
    canvasHeight,   \* gameCanvas.height
    leaderboardIsArray, \* the value held by leaderboard is an array
    now             \* the host's clock (Date.now()), in milliseconds

vars == <<isPlaying, isPaused, score, timeLeft, targetsHit, targetsMissed,
          accuracy, gameTimer, targetSpawnTimer, currentDifficulty,
          currentMode, leaderboard, activeTargets, intervals, timeouts,
          frames, storage, nextTimerId, nextTargetId, left, missClicks,
          records, lastEntry, configChanges, ended, isInitialized,
          eventsBound, canvasWidth, canvasHeight, leaderboardIsArray, now>>

-----------------------------------------------------------------------------
(* Bounds of the model *)

MaxTimerPairs == 2      \* startTimer / startTargetSpawning pairs explored
MaxTargetIds == 2       \* targets spawned in one run
MaxMissClicks == 1      \* miss clicks per session
MaxRecords == 1         \* leaderboard entries built in one run
MaxOverrun == 1         \* clock ticks explored beyond 0 / beyond the endless start
MaxFrames == 1          \* simultaneously pending render frames
MaxFieldTargets == 3     \* targets spawned in one run of the target-field specification
MaxBoardRecords == 11   \* results recorded in one run of the leaderboard specification
MaxTime == 4000         \* milliseconds explored by the timed specification
MaxTimedTargets == 3    \* targets spawned in one run of the timed specification
MaxConfigChanges == 1   \* difficulty / mode changes applied in one run
MaxClockRecords == 2    \* results written in one run of the clock specification

-----------------------------------------------------------------------------
(* config (game.js 40-75) *)

Difficulties == {"easy", "normal", "hard", "expert"}
Modes == {"timed", "endless"}

gameDuration == [timed |-> 30, endless |-> 999999]
targetSpawnRate == [easy |-> 1500, normal |-> 1000, hard |-> 700, expert |-> 500]
targetSize == [easy |-> 60, normal |-> 50, hard |-> 40, expert |-> 30]
targetLifetime == [easy |-> 3000, normal |-> 2000, hard |-> 1500, expert |-> 1000]
scoreMultiplier == [easy |-> 1, normal |-> 2, hard |-> 3, expert |-> 5]

TimeStep == 500         \* granularity of the host's clock: divides every period and lifetime explored
ClockPeriod == 1000
LeaderboardCap == 10

(* Playfield set up by setupCanvas, and the sample points used for the     *)
(* random spawn position and for pointer events.                           *)
CanvasWidth == 200
CanvasHeight == 200
SamplePoints == {<<100, 100>>}
ClickPoints == {<<100, 100>>, <<150, 100>>}
DifficultyInputs == {"normal", "expert"}

(* Sample points of the target-field specification: spawn positions and   *)
(* pointer positions on the same playfield, chosen so that targets overlap,*)
(* touch a pointer position exactly at their radius, or miss it.           *)
FieldPoints == {<<60, 100>>, <<100, 100>>, <<140, 100>>}
PointerPoints == {<<5, 100>>, <<10, 100>>, <<80, 100>>, <<100, 100>>}

(* Pointer coordinates that are not finite numbers (NaN, as computed from  *)
(* an event without clientX / clientY) are stood for by one value outside  *)
(* every playfield.                                                        *)
NotANumber == 0 - 1000000
BadPointerPoints == {<<NotANumber, 100>>, <<100, NotANumber>>}

(* The text kept under localStorage['aimTrainerLeaderboard']: absent       *)
(* (getItem returns null), the JSON text of an array of entries, text that *)
(* JSON.parse rejects, or the JSON text of a value that is not an array.   *)
NoItem == [kind |-> "null", items |-> <<>>]
Unparseable == [kind |-> "unparseable", items |-> <<>>]
NotAnArray == [kind |-> "object", items |-> <<>>]

JsonStringify(board) == [kind |-> "array", items |-> board]

JsonParse(text) ==
    [threw |-> text.kind = "unparseable",
     isArray |-> text.kind = "array",
     value |-> text.items]

(* Samples for the start-up specification: offset sizes of the canvas     *)
(* element (0 for a canvas that is not laid out) and an entry left in      *)
(* localStorage by an earlier visit.                                       *)
CanvasSizes == {0, 100, 200}
StoredEntry == [score |-> 2000, accuracy |-> 100, difficulty |-> "normal",
                mode |-> "timed", date |-> 0]

NoTimer == 0            \* gameTimer / targetSpawnTimer = null
NoEntry == [score |-> -1, accuracy |-> -1, difficulty |-> "none",
            mode |-> "none", date |-> 0]

-----------------------------------------------------------------------------
(* The current state as one record *)

Now ==
    [isPlaying |-> isPlaying, isPaused |-> isPaused, score |-> score,
     timeLeft |-> timeLeft, targetsHit |-> targetsHit,
     targetsMissed |-> targetsMissed, accuracy |-> accuracy,
     gameTimer |-> gameTimer, targetSpawnTimer |-> targetSpawnTimer,
     currentDifficulty |-> currentDifficulty, currentMode |-> currentMode,
     leaderboard |-> leaderboard, activeTargets |-> activeTargets,
     intervals |-> intervals, timeouts |-> timeouts, frames |-> frames,
     storage |-> storage, nextTimerId |-> nextTimerId,
     nextTargetId |-> nextTargetId, left |-> left,
     missClicks |-> missClicks, records |-> records,
     lastEntry |-> lastEntry, configChanges |-> configChanges,
     ended |-> ended, isInitialized |-> isInitialized,
     eventsBound |-> eventsBound, canvasWidth |-> canvasWidth,
     canvasHeight |-> canvasHeight,
     leaderboardIsArray |-> leaderboardIsArray, now |-> now,
     threw |-> FALSE]

Commit(s) ==
    /\ isPlaying' = s.isPlaying
    /\ isPaused' = s.isPaused
    /\ score' = s.score
    /\ timeLeft' = s.timeLeft
    /\ targetsHit' = s.targetsHit
    /\ targetsMissed' = s.targetsMissed
    /\ accuracy' = s.accuracy
    /\ gameTimer' = s.gameTimer
    /\ targetSpawnTimer' = s.targetSpawnTimer
    /\ currentDifficulty' = s.currentDifficulty
    /\ currentMode' = s.currentMode
    /\ leaderboard' = s.leaderboard
    /\ activeTargets' = s.activeTargets
    /\ intervals' = s.intervals
    /\ timeouts' = s.timeouts
    /\ frames' = s.frames
    /\ storage' = s.storage
    /\ nextTimerId' = s.nextTimerId
    /\ nextTargetId' = s.nextTargetId
    /\ left' = s.left
    /\ missClicks' = s.missClicks
    /\ records' = s.records
    /\ lastEntry' = s.lastEntry
    /\ configChanges' = s.configChanges
    /\ ended' = s.ended
    /\ isInitialized' = s.isInitialized
    /\ eventsBound' = s.eventsBound
    /\ canvasWidth' = s.canvasWidth
    /\ canvasHeight' = s.canvasHeight
    /\ leaderboardIsArray' = s.leaderboardIsArray
    /\ now' = s.now

(* The part of the state space that is explored *)
TimeRange ==
    ((0 - MaxOverrun) .. (gameDuration.timed + MaxOverrun))
    \cup ((gameDuration.endless - MaxOverrun) .. (gameDuration.endless + MaxOverrun))

Bounded(s) ==
    /\ s.nextTimerId <= 2 * MaxTimerPairs + 1
    /\ s.nextTargetId <= MaxTargetIds + 1
    /\ s.missClicks <= MaxMissClicks
    /\ s.records <= MaxRecords
    /\ s.frames <= MaxFrames
    /\ s.configChanges <= MaxConfigChanges
    /\ s.timeLeft \in TimeRange

-----------------------------------------------------------------------------
(* Host timer table *)

ClearInterval(s, id) ==
    [s EXCEPT !.intervals = {t \in @ : t.id # id}]

SetInterval(s, kind, period) ==
    [s EXCEPT !.intervals = @ \cup {[id |-> s.nextTimerId, kind |-> kind,
                                      period |-> period, stale |-> FALSE,
                                      due |-> s.now + period]},
              !.nextTimerId = @ + 1]

-----------------------------------------------------------------------------
(* Timer and score *)

(* Math.round(x) for x >= 0 is floor(x + 1/2) *)
RoundPercent(hit, total) == (200 * hit + total) \div (2 * total)

(* Variant: the empty case reports 0 instead of 100 *)
UpdateAccuracyEmptyZero(s) ==
    LET total == s.targetsHit + s.targetsMissed
    IN  [s EXCEPT !.accuracy = IF total > 0
                               THEN RoundPercent(s.targetsHit, total)
                               ELSE 0]

UpdateAccuracy(s) ==
    LET total == s.targetsHit + s.targetsMissed
    IN  [s EXCEPT !.accuracy = IF total > 0
                               THEN RoundPercent(s.targetsHit, total)
                               ELSE 100]

(* Variant: the difficulty multiplier is not applied to the final score *)
CalculateFinalScoreNoMultiplier(s) ==
    [s EXCEPT !.score = s.score + s.accuracy * 10]

CalculateFinalScore(s) ==
    LET accuracyBonus == s.accuracy * 10
    IN  [s EXCEPT !.score = (s.score + accuracyBonus)
                            * scoreMultiplier[s.currentDifficulty]]

(* Variant: the time is not reset *)
ResetGameStateKeepsTime(s) ==
    UpdateAccuracy([s EXCEPT !.score = 0,
                             !.targetsHit = 0,
                             !.targetsMissed = 0,
                             !.accuracy = 100,
                             !.activeTargets = <<>>,
                             !.left = {},
                             !.missClicks = 0,
                             !.ended = FALSE])

ResetGameState(s) ==
    UpdateAccuracy([s EXCEPT !.score = 0,
                             !.timeLeft = gameDuration[s.currentMode],
                             !.targetsHit = 0,
                             !.targetsMissed = 0,
                             !.accuracy = 100,
                             !.activeTargets = <<>>,
                             !.left = {},
                             !.missClicks = 0,
                             !.ended = FALSE])

-----------------------------------------------------------------------------
(* Leaderboard *)

(* Variant of the sort: an element is placed before the elements that tie *)
(* with it.                                                                *)
RECURSIVE InsertDescBeforeTies(_, _)
InsertDescBeforeTies(sorted, e) ==
    IF sorted = <<>> THEN <<e>>
    ELSE IF Head(sorted).score > e.score
         THEN <<Head(sorted)>> \o InsertDescBeforeTies(Tail(sorted), e)
         ELSE <<e>> \o sorted

(* Array.prototype.sort with (a, b) => b.score - a.score is stable: an     *)
(* element is placed behind every element whose score is not smaller.      *)
RECURSIVE InsertDesc(_, _)
InsertDesc(sorted, e) ==
    IF sorted = <<>> THEN <<e>>
    ELSE IF Head(sorted).score >= e.score
         THEN <<Head(sorted)>> \o InsertDesc(Tail(sorted), e)
         ELSE <<e>> \o sorted

RECURSIVE SortDesc(_)
SortDesc(entries) ==
    IF entries = <<>> THEN <<>>
    ELSE InsertDesc(SortDesc(SubSeq(entries, 1, Len(entries) - 1)),
                    entries[Len(entries)])

(* Variant of slice: nothing is cut *)
SliceKeepsAll(entries, n) == entries

Slice(entries, n) ==
    SubSeq(entries, 1, IF Len(entries) < n THEN Len(entries) ELSE n)

(* new Date().toISOString() is modelled by the serial number of the entry. *)
(* leaderboard.push raises a TypeError when the value is not an array.     *)
SaveToLeaderboard(s) ==
    LET entry == [score |-> s.score, accuracy |-> s.accuracy,
                  difficulty |-> s.currentDifficulty, mode |-> s.currentMode,
                  date |-> s.records + 1]
        board == Slice(SortDesc(Append(s.leaderboard, entry)), LeaderboardCap)
    IN  IF ~s.leaderboardIsArray
        THEN [s EXCEPT !.threw = TRUE]
        ELSE [s EXCEPT !.leaderboard = board,
                       !.storage = JsonStringify(board),
                       !.records = @ + 1,
                       !.lastEntry = entry]

(* loadLeaderboard: JSON.parse is not guarded, and its result is assigned  *)
(* whatever its type.                                                      *)
LoadLeaderboard(s) ==
    LET saved == s.storage
        parsed == JsonParse(saved)
    IN  IF saved.kind = "null" THEN s
        ELSE IF parsed.threw THEN [s EXCEPT !.threw = TRUE]
        ELSE [s EXCEPT !.leaderboard = parsed.value,
                       !.leaderboardIsArray = parsed.isArray]

(* getLeaderboard: [...leaderboard] raises a TypeError when the value is   *)
(* not iterable.                                                           *)
GetLeaderboard(s) ==
    IF s.leaderboardIsArray
    THEN [threw |-> FALSE, value |-> s.leaderboard]
    ELSE [threw |-> TRUE, value |-> <<>>]

(* init: getDOMElements, loadLeaderboard, bindEvents, setupCanvas (width   *)
(* and height are the offset size of the canvas element).                  *)
InitModule(s, offsetWidth, offsetHeight) ==
    IF s.isInitialized THEN s
    ELSE LET loaded == LoadLeaderboard(s)
         IN  IF loaded.threw THEN loaded
             ELSE [loaded EXCEPT !.eventsBound = TRUE,
                                 !.canvasWidth = offsetWidth,
                                 !.canvasHeight = offsetHeight,
                                 !.isInitialized = TRUE]

-----------------------------------------------------------------------------
(* Game logic *)

StartTimer(s) ==
    [SetInterval(s, "clock", ClockPeriod) EXCEPT !.gameTimer = s.nextTimerId]

StartTargetSpawning(s) ==
    [SetInterval(s, "spawn", targetSpawnRate[s.currentDifficulty])
        EXCEPT !.targetSpawnTimer = s.nextTimerId]

(* render() inside startRendering: draws and requests the next frame only  *)
(* while the game is running (the module is initialized, the canvas exists)*)
StartRendering(s) ==
    IF s.isInitialized /\ s.isPlaying /\ ~s.isPaused
    THEN [s EXCEPT !.frames = @ + 1]
    ELSE s

(* Variant: the pause flag is left as it is *)
StopGameKeepsPaused(s) ==
    IF ~s.isPlaying THEN s
    ELSE [ClearInterval(ClearInterval(s, s.gameTimer), s.targetSpawnTimer)
            EXCEPT !.isPlaying = FALSE,
                   !.activeTargets = <<>>]

(* Variant: the targets on the field are kept *)
StopGameKeepsTargets(s) ==
    IF ~s.isPlaying THEN s
    ELSE [ClearInterval(ClearInterval(s, s.gameTimer), s.targetSpawnTimer)
            EXCEPT !.isPlaying = FALSE,
                   !.isPaused = FALSE]

StopGame(s) ==
    IF ~s.isPlaying THEN s
    ELSE [ClearInterval(ClearInterval(s, s.gameTimer), s.targetSpawnTimer)
            EXCEPT !.isPlaying = FALSE,
                   !.isPaused = FALSE,
                   !.activeTargets = <<>>]

(* Variant: the guard on isPlaying is missing *)
StartGameUnguarded(s) ==
    StartRendering(StartTargetSpawning(StartTimer(
        [ResetGameState(s) EXCEPT !.isPlaying = TRUE,
                                  !.isPaused = FALSE])))

StartGame(s) ==
    IF s.isPlaying THEN s
    ELSE StartRendering(StartTargetSpawning(StartTimer(
            [ResetGameState(s) EXCEPT !.isPlaying = TRUE,
                                      !.isPaused = FALSE])))

PauseGame(s) ==
    ClearInterval(ClearInterval(s, s.gameTimer), s.targetSpawnTimer)

ResumeGame(s) ==
    StartTargetSpawning(StartTimer(s))

(* Variant: the guard on isPlaying is missing *)
TogglePauseUnguarded(s) ==
    LET t == [s EXCEPT !.isPaused = ~s.isPaused]
    IN  IF t.isPaused THEN PauseGame(t) ELSE ResumeGame(t)

TogglePause(s) ==
    IF ~s.isPlaying THEN s
    ELSE LET t == [s EXCEPT !.isPaused = ~s.isPaused]
         IN  IF t.isPaused THEN PauseGame(t) ELSE ResumeGame(t)

(* resetGame ends with render(), which is not in scope there (render is a  *)
(* local of startRendering): the call raises a ReferenceError after the    *)
(* state has been reset.  Timers that survive the reset are marked as      *)
(* scheduled before it.                                                    *)
MarkStale(timers) ==
    {[t EXCEPT !.stale = TRUE] : t \in timers}

ResetGame(s) ==
    LET t == ResetGameState(StopGame(s))
    IN  [t EXCEPT !.intervals = MarkStale(@),
                  !.timeouts = MarkStale(@),
                  !.threw = TRUE]

EndGame(s) ==
    [SaveToLeaderboard(CalculateFinalScore(StopGame(s)))
        EXCEPT !.ended = s.isPlaying \/ s.ended]

(* Variant: the mode is not looked at, every tick counts down *)
GameTimerTickModeless(s) ==
    LET t == [s EXCEPT !.timeLeft = @ - 1]
    IN  IF t.timeLeft <= 0 THEN EndGame(t) ELSE t

(* The callback of startTimer *)
GameTimerTick(s) ==
    IF s.currentMode = "timed"
    THEN LET t == [s EXCEPT !.timeLeft = @ - 1]
         IN  IF t.timeLeft <= 0 THEN EndGame(t) ELSE t
    ELSE [s EXCEPT !.timeLeft = @ + 1]

-----------------------------------------------------------------------------
(* Targets *)

(* distance <= target.radius; a comparison with NaN is false *)
IsFinite(v) == v # NotANumber

Inside(target, x, y) ==
    /\ IsFinite(x)
    /\ IsFinite(y)
    /\ (x - target.x) * (x - target.x) + (y - target.y) * (y - target.y)
          <= target.radius * target.radius

(* Variant of checkTargetHit: the scan runs from the first element *)
CheckTargetHitOldest(targets, x, y) ==
    LET covering == {i \in 1..Len(targets) : Inside(targets[i], x, y)}
    IN  IF covering = {} THEN 0
        ELSE CHOOSE i \in covering : \A j \in covering : i <= j

(* Index of the target returned by checkTargetHit, 0 for null: the scan    *)
(* runs from the last element to the first.                                *)
CheckTargetHit(targets, x, y) ==
    LET covering == {i \in 1..Len(targets) : Inside(targets[i], x, y)}
    IN  IF covering = {} THEN 0
        ELSE CHOOSE i \in covering : \A j \in covering : j <= i

(* activeTargets.findIndex(t => t.id === id), 0 for -1 *)
FindIndex(targets, id) ==
    LET found == {i \in 1..Len(targets) : targets[i].id = id}
    IN  IF found = {} THEN 0
        ELSE CHOOSE i \in found : \A j \in found : i <= j

(* activeTargets.splice(index, 1) *)
Splice(targets, index) ==
    SubSeq(targets, 1, index - 1) \o SubSeq(targets, index + 1, Len(targets))

(* Values of Math.random() * (extent - 2 * radius) + radius for a random   *)
(* number in [0, 1), restricted to integers.                               *)
SpawnCoords(extent, radius) ==
    LET span == extent - 2 * radius
    IN  IF span > 0 THEN {c \in 0..extent : radius <= c /\ c < radius + span}
        ELSE IF span = 0 THEN {radius}
        ELSE {c \in (0 - radius)..radius : radius + span < c /\ c <= radius}

(* The sampled positions spawnTarget can draw on the current playfield *)
SpawnPoints(s) ==
    {p \in SamplePoints :
        /\ p[1] \in SpawnCoords(s.canvasWidth, targetSize[s.currentDifficulty])
        /\ p[2] \in SpawnCoords(s.canvasHeight, targetSize[s.currentDifficulty])}

(* Variant: the target is removed without being counted as a miss *)
ExpireTargetUncounted(s, timeout) ==
    LET index == FindIndex(s.activeTargets, timeout.target)
        fired == [s EXCEPT !.timeouts = @ \ {timeout}]
    IN  IF index # 0
        THEN [fired EXCEPT !.activeTargets = Splice(@, index),
                           !.left = @ \cup {[id |-> timeout.target,
                                             x |-> s.activeTargets[index].x,
                                             y |-> s.activeTargets[index].y,
                                             radius |-> s.activeTargets[index].radius,
                                             by |-> "expiry"]}]
        ELSE fired

(* Variant: a miss is counted even when the target is no longer active *)
ExpireTargetUnchecked(s, timeout) ==
    LET index == FindIndex(s.activeTargets, timeout.target)
        fired == [s EXCEPT !.timeouts = @ \ {timeout}]
    IN  IF index # 0
        THEN UpdateAccuracy(
                [fired EXCEPT !.activeTargets = Splice(@, index),
                              !.targetsMissed = @ + 1,
                              !.left = @ \cup {[id |-> timeout.target,
                                                x |-> s.activeTargets[index].x,
                                                y |-> s.activeTargets[index].y,
                                                radius |-> s.activeTargets[index].radius,
                                                by |-> "expiry"]}])
        ELSE UpdateAccuracy([fired EXCEPT !.targetsMissed = @ + 1])

(* Variant: the miss is counted but accuracy is not recomputed *)
ExpireTargetStaleAccuracy(s, timeout) ==
    LET index == FindIndex(s.activeTargets, timeout.target)
        fired == [s EXCEPT !.timeouts = @ \ {timeout}]
    IN  IF index # 0
        THEN [fired EXCEPT !.activeTargets = Splice(@, index),
                           !.targetsMissed = @ + 1,
                           !.left = @ \cup {[id |-> timeout.target,
                                             x |-> s.activeTargets[index].x,
                                             y |-> s.activeTargets[index].y,
                                             radius |-> s.activeTargets[index].radius,
                                             by |-> "expiry"]}]
        ELSE fired

(* The callback of the setTimeout of spawnTarget *)
ExpireTarget(s, timeout) ==
    LET index == FindIndex(s.activeTargets, timeout.target)
        fired == [s EXCEPT !.timeouts = @ \ {timeout}]
    IN  IF index # 0
        THEN UpdateAccuracy(
                [fired EXCEPT !.activeTargets = Splice(@, index),
                              !.targetsMissed = @ + 1,
                              !.left = @ \cup {[id |-> timeout.target,
                                                x |-> s.activeTargets[index].x,
                                                y |-> s.activeTargets[index].y,
                                                radius |-> s.activeTargets[index].radius,
                                                by |-> "expiry"]}])
        ELSE fired

(* Variant: the state of the session is not looked at *)
SpawnTargetUnguarded(s, x, y) ==
    LET target == [id |-> s.nextTargetId, x |-> x, y |-> y,
                   radius |-> targetSize[s.currentDifficulty],
                   spawnTime |-> s.now,
                   lifetime |-> targetLifetime[s.currentDifficulty],
                   isHover |-> FALSE]
    IN  [s EXCEPT !.activeTargets = Append(@, target),
                  !.nextTargetId = @ + 1,
                  !.timeouts = @ \cup {[target |-> target.id,
                                        stale |-> FALSE,
                                        due |-> s.now + target.lifetime]}]

(* Variant: the expiry is scheduled after twice the lifetime *)
SpawnTargetLongTimeout(s, x, y) ==
    IF ~s.isPlaying \/ s.isPaused THEN s
    ELSE LET target == [id |-> s.nextTargetId, x |-> x, y |-> y,
                        radius |-> targetSize[s.currentDifficulty],
                        spawnTime |-> s.now,
                        lifetime |-> targetLifetime[s.currentDifficulty],
                        isHover |-> FALSE]
         IN  [s EXCEPT !.activeTargets = Append(@, target),
                       !.nextTargetId = @ + 1,
                       !.timeouts = @ \cup {[target |-> target.id,
                                             stale |-> FALSE,
                                             due |-> s.now + 2 * target.lifetime]}]

SpawnTarget(s, x, y) ==
    IF ~s.isPlaying \/ s.isPaused THEN s
    ELSE LET target == [id |-> s.nextTargetId, x |-> x, y |-> y,
                        radius |-> targetSize[s.currentDifficulty],
                        spawnTime |-> s.now,
                        lifetime |-> targetLifetime[s.currentDifficulty],
                        isHover |-> FALSE]
         IN  [s EXCEPT !.activeTargets = Append(@, target),
                       !.nextTargetId = @ + 1,
                       !.timeouts = @ \cup {[target |-> target.id,
                                             stale |-> FALSE,
                                             due |-> s.now + target.lifetime]}]

HitTarget(s, target) ==
    LET index == FindIndex(s.activeTargets, target.id)
        removed == IF index # 0
                   THEN [s EXCEPT !.activeTargets = Splice(@, index)]
                   ELSE s
    IN  UpdateAccuracy(
            [removed EXCEPT !.targetsHit = @ + 1,
                            !.score = @ + 10 * scoreMultiplier[s.currentDifficulty],
                            !.left = @ \cup {[id |-> target.id, x |-> target.x,
                                              y |-> target.y,
                                              radius |-> target.radius,
                                              by |-> "hit"]}])

(* Variant: the click is handled whatever the state of the session *)
HandleCanvasClickUnguarded(s, x, y) ==
    LET hit == CheckTargetHit(s.activeTargets, x, y)
    IN  IF hit # 0
        THEN [s EXCEPT !.threw = TRUE]
        ELSE UpdateAccuracy([s EXCEPT !.targetsMissed = @ + 1,
                                      !.missClicks = @ + 1])

(* In handleCanvasClick the result of checkTargetHit is bound to a local   *)
(* constant named hitTarget, which hides the function hitTarget: the call  *)
(* hitTarget(hitTarget) applies the target object and raises a TypeError   *)
(* before anything is changed.                                             *)
HandleCanvasClick(s, x, y) ==
    IF ~s.isPlaying \/ s.isPaused THEN s
    ELSE LET hit == CheckTargetHit(s.activeTargets, x, y)
         IN  IF hit # 0
             THEN [s EXCEPT !.threw = TRUE]
             ELSE UpdateAccuracy([s EXCEPT !.targetsMissed = @ + 1,
                                           !.missClicks = @ + 1])

(* Variant: hovering a target removes it *)
HandleCanvasMouseMoveRemoves(s, x, y) ==
    IF ~s.isPlaying \/ s.isPaused THEN s
    ELSE LET hoverTarget == CheckTargetHit(s.activeTargets, x, y)
         IN  IF hoverTarget = 0 THEN s
             ELSE [s EXCEPT !.activeTargets = Splice(@, hoverTarget)]

(* handleCanvasMouseMove: marks the target under the pointer (the cursor   *)
(* style of the canvas is not part of the state).                          *)
HandleCanvasMouseMove(s, x, y) ==
    IF ~s.isPlaying \/ s.isPaused THEN s
    ELSE LET hoverTarget == CheckTargetHit(s.activeTargets, x, y)
         IN  [s EXCEPT !.activeTargets =
                [i \in 1..Len(@) |-> [@[i] EXCEPT !.isHover = (i = hoverTarget)]]]

(* One frame of the render loop of startRendering *)
RenderFrame(s) ==
    IF s.isInitialized /\ s.isPlaying /\ ~s.isPaused THEN s
    ELSE [s EXCEPT !.frames = @ - 1]

(* handleVisibilityChange: hidden is document.hidden *)
HandleVisibilityChange(s, hidden) ==
    IF hidden /\ s.isPlaying /\ ~s.isPaused THEN TogglePause(s) ELSE s

(* Variant: the difficulty can be changed during a session *)
HandleDifficultyChangeUnguarded(s, value) ==
    [s EXCEPT !.currentDifficulty = value,
              !.configChanges = IF value = s.currentDifficulty
                                THEN @ ELSE @ + 1]

HandleDifficultyChange(s, value) ==
    IF ~s.isPlaying
    THEN [s EXCEPT !.currentDifficulty = value,
                   !.configChanges = IF value = s.currentDifficulty
                                     THEN @ ELSE @ + 1]
    ELSE s

HandleModeChange(s, value) ==
    IF ~s.isPlaying
    THEN [s EXCEPT !.currentMode = value,
                   !.configChanges = IF value = s.currentMode
                                     THEN @ ELSE @ + 1]
    ELSE s

(* The values of event.key that are explored: the three commands, both    *)
(* cases of the letter, and a key without a command.                       *)
Keys == {" ", "Escape", "r", "R", "a"}

(* Variant: Escape toggles the pause whenever a session is playing *)
HandleKeydownEscapeToggles(s, key) ==
    CASE key = " " -> IF s.isPlaying THEN TogglePause(s) ELSE StartGame(s)
      [] key = "Escape" -> IF s.isPlaying THEN TogglePause(s) ELSE s
      [] key \in {"r", "R"} -> IF ~s.isPlaying THEN ResetGame(s) ELSE s
      [] OTHER -> s

(* handleKeydown: the switch on event.key *)
HandleKeydown(s, key) ==
    CASE key = " " -> IF s.isPlaying THEN TogglePause(s) ELSE StartGame(s)
      [] key = "Escape" ->
            IF s.isPlaying /\ ~s.isPaused THEN TogglePause(s) ELSE s
      [] key \in {"r", "R"} -> IF ~s.isPlaying THEN ResetGame(s) ELSE s
      [] OTHER -> s

-----------------------------------------------------------------------------
(* Actions: one per handler, public operation or scheduled callback *)

Init ==
    /\ isPlaying = FALSE
    /\ isPaused = FALSE
    /\ score = 0
    /\ timeLeft = 30
    /\ targetsHit = 0
    /\ targetsMissed = 0
    /\ accuracy = 100
    /\ gameTimer = NoTimer
    /\ targetSpawnTimer = NoTimer
    /\ currentDifficulty = "normal"
    /\ currentMode = "timed"
    /\ leaderboard = <<>>
    /\ activeTargets = <<>>
    /\ intervals = {}
    /\ timeouts = {}
    /\ frames = 0
    /\ storage = NoItem
    /\ nextTimerId = 1
    /\ nextTargetId = 1
    /\ left = {}
    /\ missClicks = 0
    /\ records = 0
    /\ lastEntry = NoEntry
    /\ configChanges = 0
    /\ ended = FALSE
    /\ isInitialized = TRUE
    /\ eventsBound = TRUE
    /\ canvasWidth = CanvasWidth
    /\ canvasHeight = CanvasHeight
    /\ leaderboardIsArray = TRUE
    /\ now = 0

StartGameCall ==
    LET s == StartGame(Now) IN Bounded(s) /\ Commit(s)

TogglePauseCall ==
    LET s == TogglePause(Now) IN Bounded(s) /\ Commit(s)

PauseGameCall ==
    LET s == PauseGame(Now) IN Bounded(s) /\ Commit(s)

ResumeGameCall ==
    LET s == ResumeGame(Now) IN Bounded(s) /\ Commit(s)

ResetGameCall ==
    LET s == ResetGame(Now) IN Bounded(s) /\ Commit(s)

EndGameCall ==
    LET s == EndGame(Now) IN Bounded(s) /\ Commit(s)

CanvasClick ==
    \E p \in ClickPoints :
        LET s == HandleCanvasClick(Now, p[1], p[2]) IN Bounded(s) /\ Commit(s)

CanvasMouseMove ==
    \E p \in ClickPoints :
        LET s == HandleCanvasMouseMove(Now, p[1], p[2])
        IN  Bounded(s) /\ Commit(s)

VisibilityChange ==
    \E hidden \in BOOLEAN :
        LET s == HandleVisibilityChange(Now, hidden) IN Bounded(s) /\ Commit(s)

DifficultyChange ==
    \E d \in DifficultyInputs :
        LET s == HandleDifficultyChange(Now, d) IN Bounded(s) /\ Commit(s)

ModeChange ==
    \E m \in Modes :
        LET s == HandleModeChange(Now, m) IN Bounded(s) /\ Commit(s)

ClockFires ==
    \E t \in intervals :
        /\ t.kind = "clock"
        /\ LET s == GameTimerTick(Now) IN Bounded(s) /\ Commit(s)

SpawnFires ==
    \E t \in intervals :
        /\ t.kind = "spawn"
        /\ \E p \in SpawnPoints(Now) :
            LET s == SpawnTarget(Now, p[1], p[2]) IN Bounded(s) /\ Commit(s)

ExpiryFires ==
    \E t \in timeouts :
        LET s == ExpireTarget(Now, t) IN Bounded(s) /\ Commit(s)

Keydown ==
    \E key \in Keys :
        LET s == HandleKeydown(Now, key) IN Bounded(s) /\ Commit(s)

FrameFires ==
    /\ frames > 0
    /\ LET s == RenderFrame(Now) IN Bounded(s) /\ Commit(s)

Next ==
    \/ StartGameCall
    \/ TogglePauseCall
    \/ PauseGameCall
    \/ ResumeGameCall
    \/ ResetGameCall
    \/ EndGameCall
    \/ CanvasClick
    \/ CanvasMouseMove
    \/ VisibilityChange
    \/ DifficultyChange
    \/ ModeChange
    \/ Keydown
    \/ ClockFires
    \/ SpawnFires
    \/ ExpiryFires
    \/ FrameFires

Spec == Init /\ [][Next]_vars

-----------------------------------------------------------------------------
(* The target field: a session is started and then only targets and the    *)
(* pointer act, on more spawn and pointer positions than in Spec.          *)

FieldBounded(s) ==
    /\ s.nextTargetId <= MaxFieldTargets + 1
    /\ Bounded([s EXCEPT !.nextTargetId = 1])

FieldSpawnPoints(s) ==
    {p \in FieldPoints :
        /\ p[1] \in SpawnCoords(s.canvasWidth, targetSize[s.currentDifficulty])
        /\ p[2] \in SpawnCoords(s.canvasHeight, targetSize[s.currentDifficulty])}

FieldSpawnFires ==
    \E t \in intervals :
        /\ t.kind = "spawn"
        /\ \E p \in FieldSpawnPoints(Now) :
            LET s == SpawnTarget(Now, p[1], p[2]) IN FieldBounded(s) /\ Commit(s)

FieldExpiryFires ==
    \E t \in timeouts :
        LET s == ExpireTarget(Now, t) IN FieldBounded(s) /\ Commit(s)

FieldMouseMove ==
    \E p \in PointerPoints \cup BadPointerPoints :
        LET s == HandleCanvasMouseMove(Now, p[1], p[2])
        IN  FieldBounded(s) /\ Commit(s)

FieldClick ==
    \E p \in PointerPoints \cup BadPointerPoints :
        LET s == HandleCanvasClick(Now, p[1], p[2])
        IN  FieldBounded(s) /\ Commit(s)

FieldNext ==
    \/ StartGameCall
    \/ DifficultyChange
    \/ FieldSpawnFires
    \/ FieldExpiryFires
    \/ FieldMouseMove
    \/ FieldClick

FieldSpec == Init /\ [][FieldNext]_vars

-----------------------------------------------------------------------------
(* The leaderboard: sessions are started and ended, and endGame is called  *)
(* again on a finished session, until MaxBoardRecords results are written. *)

BoardBounded(s) ==
    /\ s.records <= MaxBoardRecords
    /\ s.nextTimerId <= 2 * (MaxBoardRecords + 1) + 1

BoardStartGame ==
    LET s == StartGame(Now) IN BoardBounded(s) /\ Commit(s)

BoardEndGame ==
    LET s == EndGame(Now) IN BoardBounded(s) /\ Commit(s)

BoardNext ==
    \/ BoardStartGame
    \/ BoardEndGame

BoardSpec == Init /\ [][BoardNext]_vars

-----------------------------------------------------------------------------
(* Start-up: the page is loaded with some content of localStorage and some *)
(* size of the canvas element, init runs, and sessions are played through  *)
(* the bound controls and ended.                                           *)

StoredSamples ==
    {NoItem, JsonStringify(<<>>), JsonStringify(<<StoredEntry>>),
     Unparseable, NotAnArray}

BootBounded(s) ==
    Bounded([s EXCEPT !.nextTimerId = 1]) /\ s.nextTimerId <= 3

(* The least and the greatest position spawnTarget can draw on one axis *)
SpawnEdgeCoords(extent, radius) ==
    LET coords == SpawnCoords(extent, radius)
    IN  {c \in coords : (\A d \in coords : c <= d) \/ (\A d \in coords : d <= c)}

BootSpawnPoints(s) ==
    SpawnEdgeCoords(s.canvasWidth, targetSize[s.currentDifficulty])
        \X SpawnEdgeCoords(s.canvasHeight, targetSize[s.currentDifficulty])

BootInit ==
    /\ isPlaying = FALSE
    /\ isPaused = FALSE
    /\ score = 0
    /\ timeLeft = 30
    /\ targetsHit = 0
    /\ targetsMissed = 0
    /\ accuracy = 100
    /\ gameTimer = NoTimer
    /\ targetSpawnTimer = NoTimer
    /\ currentDifficulty = "normal"
    /\ currentMode = "timed"
    /\ leaderboard = <<>>
    /\ activeTargets = <<>>
    /\ intervals = {}
    /\ timeouts = {}
    /\ frames = 0
    /\ storage \in StoredSamples
    /\ nextTimerId = 1
    /\ nextTargetId = 1
    /\ left = {}
    /\ missClicks = 0
    /\ records = 0
    /\ lastEntry = NoEntry
    /\ configChanges = 0
    /\ ended = FALSE
    /\ isInitialized = FALSE
    /\ eventsBound = FALSE
    /\ canvasWidth = 0
    /\ canvasHeight = 0
    /\ leaderboardIsArray = TRUE
    /\ now = 0

InitCall ==
    \E w \in CanvasSizes : \E h \in CanvasSizes :
        LET s == InitModule(Now, w, h) IN BootBounded(s) /\ Commit(s)

BootStartGame ==
    /\ eventsBound
    /\ LET s == StartGame(Now) IN BootBounded(s) /\ Commit(s)

BootDifficultyChange ==
    /\ eventsBound
    /\ \E d \in Difficulties :
          LET s == HandleDifficultyChange(Now, d) IN BootBounded(s) /\ Commit(s)

BootSpawnFires ==
    \E t \in intervals :
        /\ t.kind = "spawn"
        /\ \E p \in BootSpawnPoints(Now) :
            LET s == SpawnTarget(Now, p[1], p[2]) IN BootBounded(s) /\ Commit(s)

BootEndGame ==
    /\ isInitialized
    /\ isPlaying
    /\ LET s == EndGame(Now) IN BootBounded(s) /\ Commit(s)

BootNext ==
    \/ InitCall
    \/ BootStartGame
    \/ BootDifficultyChange
    \/ BootSpawnFires
    \/ BootEndGame

BootSpec == BootInit /\ [][BootNext]_vars

-----------------------------------------------------------------------------
(* Timed behaviour: the host's clock advances in steps of TimeStep, and a  *)
(* timer callback runs when the clock reaches the time it is due; the      *)
(* clock does not pass a timer that is due.  A setInterval timer is due    *)
(* again one period later unless its callback has cleared it.              *)

TimedBounded(s) ==
    /\ s.now <= MaxTime
    /\ s.nextTargetId <= MaxTimedTargets + 1
    /\ Bounded([s EXCEPT !.nextTargetId = 1])

Rearm(s, timer) ==
    [s EXCEPT !.intervals =
        {IF u.id = timer.id THEN [u EXCEPT !.due = @ + u.period] ELSE u : u \in @}]

Advance ==
    /\ \A t \in intervals : t.due > now
    /\ \A t \in timeouts : t.due > now
    /\ LET s == [Now EXCEPT !.now = @ + TimeStep]
       IN  TimedBounded(s) /\ Commit(s)

TimedStartGame ==
    LET s == StartGame(Now) IN TimedBounded(s) /\ Commit(s)

TimedTogglePause ==
    LET s == TogglePause(Now) IN TimedBounded(s) /\ Commit(s)

TimedDifficultyChange ==
    \E d \in DifficultyInputs :
        LET s == HandleDifficultyChange(Now, d) IN TimedBounded(s) /\ Commit(s)

TimedClockFires ==
    \E t \in intervals :
        /\ t.kind = "clock"
        /\ t.due = now
        /\ LET s == Rearm(GameTimerTick(Now), t)
           IN  TimedBounded(s) /\ Commit(s)

TimedSpawnFires ==
    \E t \in intervals :
        /\ t.kind = "spawn"
        /\ t.due = now
        /\ \E p \in SpawnPoints(Now) :
            LET s == Rearm(SpawnTarget(Now, p[1], p[2]), t)
            IN  TimedBounded(s) /\ Commit(s)

TimedExpiryFires ==
    \E t \in timeouts :
        /\ t.due = now
        /\ LET s == ExpireTarget(Now, t) IN TimedBounded(s) /\ Commit(s)

TimedNext ==
    \/ Advance
    \/ TimedStartGame
    \/ TimedTogglePause
    \/ TimedDifficultyChange
    \/ TimedClockFires
    \/ TimedSpawnFires
    \/ TimedExpiryFires

TimedSpec == Init /\ [][TimedNext]_vars

-----------------------------------------------------------------------------
(* The session clock: sessions are started, paused, resumed and reset and  *)
(* the clock fires, until MaxClockRecords results are written (every tick  *)
(* that finds timeLeft <= 0 writes one).                                   *)

ClockBounded(s) ==
    /\ s.nextTimerId <= 2 * MaxTimerPairs + 1
    /\ s.records <= MaxClockRecords
    /\ s.frames <= MaxFrames
    /\ s.timeLeft \in TimeRange

ClockStartGame ==
    LET s == StartGame(Now) IN ClockBounded(s) /\ Commit(s)

ClockTogglePause ==
    LET s == TogglePause(Now) IN ClockBounded(s) /\ Commit(s)

ClockPauseGame ==
    LET s == PauseGame(Now) IN ClockBounded(s) /\ Commit(s)

ClockResumeGame ==
    LET s == ResumeGame(Now) IN ClockBounded(s) /\ Commit(s)

ClockResetGame ==
    LET s == ResetGame(Now) IN ClockBounded(s) /\ Commit(s)

ClockEndGame ==
    LET s == EndGame(Now) IN ClockBounded(s) /\ Commit(s)

ClockTimerFires ==
    \E t \in intervals :
        /\ t.kind = "clock"
        /\ LET s == GameTimerTick(Now) IN ClockBounded(s) /\ Commit(s)

ClockFrameFires ==
    /\ frames > 0
    /\ LET s == RenderFrame(Now) IN ClockBounded(s) /\ Commit(s)

ClockNext ==
    \/ ClockStartGame
    \/ ClockTogglePause
    \/ ClockPauseGame
    \/ ClockResumeGame
    \/ ClockResetGame
    \/ ClockEndGame
    \/ ClockTimerFires
    \/ ClockFrameFires

ClockSpec == Init /\ [][ClockNext]_vars

-----------------------------------------------------------------------------
(* Properties *)

Counters(s) ==
    <<s.score, s.targetsHit, s.targetsMissed, s.accuracy, s.timeLeft,
      s.activeTargets>>

Running == isPlaying /\ ~isPaused

LiveIds == {t.id : t \in intervals}

(* C1: once resetGame has run and a new session has been started, no clock, *)
(* spawner or expiry callback scheduled before the reset changes score,     *)
(* targetsHit, targetsMissed, accuracy, timeRemaining or the active-target  *)
(* set of the new session.                                                  *)
C1_StaleCallbacksInert ==
    isPlaying =>
        /\ \A t \in intervals :
              (t.stale /\ t.kind = "clock") =>
                  Counters(GameTimerTick(Now)) = Counters(Now)
        /\ \A t \in intervals :
              (t.stale /\ t.kind = "spawn") =>
                  \A p \in SpawnPoints(Now) :
                      Counters(SpawnTarget(Now, p[1], p[2])) = Counters(Now)
        /\ \A t \in timeouts :
              t.stale => Counters(ExpireTarget(Now, t)) = Counters(Now)

(* C2: from the moment the session becomes Paused until it is resumed,     *)
(* targetsHit, targetsMissed, accuracy, score, timeRemaining and the       *)
(* active-target set do not change (every timer has been cancelled).  The *)
(* session counts as not resumed while no interval timer is live, which    *)
(* leaves the pending expiry callbacks as the only timers of the session.  *)
C2_PausedFrozen ==
    [][(/\ isPlaying /\ isPaused /\ isPlaying' /\ isPaused'
        /\ intervals = {}) =>
          UNCHANGED <<targetsHit, targetsMissed, accuracy, score, timeLeft,
                      activeTargets>>]_vars

(* C3: a click while Running at a point within an active target's radius   *)
(* removes that target, increments targetsHit by exactly 1, adds 10 x the  *)
(* difficulty multiplier to score and recomputes accuracy.                 *)
C3_HitScores ==
    Running =>
        \A p \in ClickPoints :
            LET i == CheckTargetHit(activeTargets, p[1], p[2])
                r == HandleCanvasClick(Now, p[1], p[2])
            IN  i # 0 =>
                    /\ r.activeTargets = Splice(activeTargets, i)
                    /\ r.targetsHit = targetsHit + 1
                    /\ r.score = score + 10 * scoreMultiplier[currentDifficulty]
                    /\ r.accuracy = RoundPercent(targetsHit + 1,
                                                 targetsHit + 1 + targetsMissed)

(* C4 as stated: targetsHit + targetsMissed equals the number of targets   *)
(* that have left the active set by a hit or by expiry since the session   *)
(* started, and nothing else is counted.                                   *)
C4_OnlyRemovalsCounted ==
    targetsHit + targetsMissed = Cardinality(left)

(* C4 amended: targetsHit + targetsMissed equals the number of targets     *)
(* that have left the active set by a hit or by expiry since the session   *)
(* started plus the number of clicks that hit no target; no target is      *)
(* counted twice.                                                          *)
C4_RemovalsAndMissClicksCounted ==
    /\ targetsHit + targetsMissed = Cardinality(left) + missClicks
    /\ \A a, b \in left : a.id = b.id => a = b

C4_Witness ==
    /\ Cardinality(left) >= 1
    /\ missClicks >= 1
    /\ targetsMissed = 2

(* C5 as stated: when a click and the expiry race for the same target,     *)
(* whichever removes it first wins and the other changes no counter, so    *)
(* each target contributes at most 1 to targetsHit + targetsMissed.        *)
C5_LoserChangesNoCounter ==
    /\ \A a, b \in left : a.id = b.id => a = b
    /\ \A t \in timeouts :
          FindIndex(activeTargets, t.target) = 0 =>
              Counters(ExpireTarget(Now, t)) = Counters(Now)
    /\ Running =>
          \A p \in ClickPoints : \A g \in left :
              (/\ g.by = "expiry"
               /\ Inside(g, p[1], p[2])
               /\ CheckTargetHit(activeTargets, p[1], p[2]) = 0) =>
                  Counters(HandleCanvasClick(Now, p[1], p[2])) = Counters(Now)

(* C5 amended: a target is removed by at most one of hit and expiry and is *)
(* counted at most once through its removal: an expiry callback whose      *)
(* target is no longer active changes no counter; a click that arrives     *)
(* after the expiry has removed the target finds no target and is counted  *)
(* as an ordinary miss (targetsMissed + 1, targetsHit unchanged).          *)
C5_RemovedOnceLateClickIsMiss ==
    /\ \A a, b \in left : a.id = b.id => a = b
    /\ \A g \in left : FindIndex(activeTargets, g.id) = 0
    /\ \A t \in timeouts :
          FindIndex(activeTargets, t.target) = 0 =>
              Counters(ExpireTarget(Now, t)) = Counters(Now)
    /\ Running =>
          \A p \in ClickPoints : \A g \in left :
              (/\ g.by = "expiry"
               /\ Inside(g, p[1], p[2])
               /\ CheckTargetHit(activeTargets, p[1], p[2]) = 0) =>
                  LET r == HandleCanvasClick(Now, p[1], p[2])
                  IN  /\ r.targetsMissed = targetsMissed + 1
                      /\ r.targetsHit = targetsHit
                      /\ r.score = score
                      /\ r.activeTargets = activeTargets

C5_Witness ==
    /\ Running
    /\ \E p \in ClickPoints : \E g \in left :
          /\ g.by = "expiry"
          /\ Inside(g, p[1], p[2])
          /\ CheckTargetHit(activeTargets, p[1], p[2]) = 0
    /\ \E t \in timeouts : FindIndex(activeTargets, t.target) = 0

(* C6: accuracy is 100 when targetsHit + targetsMissed = 0 and             *)
(* round(100 * targetsHit / (targetsHit + targetsMissed)) otherwise, hence *)
(* always within 0..100.                                                   *)
C6_AccuracyFormula ==
    LET total == targetsHit + targetsMissed
    IN  /\ accuracy \in 0..100
        /\ total = 0 => accuracy = 100
        /\ total > 0 =>
              /\ 2 * accuracy * total <= 200 * targetsHit + total
              /\ 200 * targetsHit + total < 2 * (accuracy + 1) * total

C6_Witness ==
    /\ targetsMissed >= 1
    /\ accuracy = 0

(* C7: when a session ends with running score s, accuracy a and multiplier *)
(* m, the score reported afterwards and written to the leaderboard entry   *)
(* is (s + 10 * a) * m, a and m being the values at the moment of ending.  *)
C7_FinalScore ==
    [][(isPlaying /\ ~isPlaying' /\ records' = records + 1) =>
          /\ score' = (score + 10 * accuracy) * scoreMultiplier[currentDifficulty]
          /\ lastEntry'.score = score'
          /\ lastEntry'.accuracy = accuracy
          /\ lastEntry'.difficulty = currentDifficulty
          /\ Len(leaderboard) < LeaderboardCap =>
                \E i \in 1..Len(leaderboard') : leaderboard'[i] = lastEntry'
          /\ storage' = JsonStringify(leaderboard')]_vars

C7_Witness ==
    /\ ended
    /\ ~isPlaying
    /\ records = 1
    /\ lastEntry.score = score
    /\ score = 1000 * scoreMultiplier[currentDifficulty]

(* C8: in timed mode a Running session loses 1 from timeRemaining on every *)
(* clock tick; the tick that brings it to 0 ends the session (not playing, *)
(* both interval timers stopped, final score computed once, one entry      *)
(* written); no later tick recomputes the score or writes another entry.   *)
C8_TimedCountdownEndsOnce ==
    /\ (Running /\ currentMode = "timed" /\ timeLeft > 1) =>
          \A t \in intervals :
              t.kind = "clock" =>
                  LET r == GameTimerTick(Now)
                  IN  /\ r.timeLeft = timeLeft - 1
                      /\ r.isPlaying
                      /\ r.score = score
    /\ (Running /\ currentMode = "timed" /\ timeLeft = 1) =>
          \A t \in intervals :
              t.kind = "clock" =>
                  LET r == GameTimerTick(Now)
                  IN  /\ r.timeLeft = 0
                      /\ ~r.isPlaying
                      /\ \A u \in r.intervals :
                            u.id # gameTimer /\ u.id # targetSpawnTimer
                      /\ r.score = (score + 10 * accuracy)
                                   * scoreMultiplier[currentDifficulty]
                      /\ r.records = records + 1
    /\ (ended /\ ~isPlaying /\ currentMode = "timed" /\ timeLeft <= 0) =>
          \A t \in intervals :
              t.kind = "clock" =>
                  LET r == GameTimerTick(Now)
                  IN  /\ r.score = score
                      /\ r.leaderboard = leaderboard
                      /\ r.records = records

(* C9: startGame called while the session is Running or Paused changes     *)
(* nothing (state, counters, time, targets, timers); calling startGame     *)
(* twice in a row has the same effect as calling it once.                  *)
C9_StartGameIdempotent ==
    /\ isPlaying => StartGame(Now) = Now
    /\ StartGame(StartGame(Now)) = StartGame(Now)

C9_Witness ==
    /\ isPlaying
    /\ isPaused
    /\ Len(activeTargets) > 0
    /\ timeLeft < gameDuration.timed

(* C10: startGame from Idle or Ended zeroes score, targetsHit and          *)
(* targetsMissed, empties the active-target set, sets timeRemaining to the *)
(* current mode's initial value, makes the session playing and not paused, *)
(* and starts exactly one clock and one spawner interval at the current    *)
(* difficulty's spawn interval.                                            *)
C10_StartGameResets ==
    [][(~isPlaying /\ isPlaying') =>
          /\ score' = 0
          /\ targetsHit' = 0
          /\ targetsMissed' = 0
          /\ activeTargets' = <<>>
          /\ timeLeft' = gameDuration[currentMode]
          /\ ~isPaused'
          /\ gameTimer' \notin LiveIds
          /\ targetSpawnTimer' \notin LiveIds
          /\ intervals' = intervals \cup
                {[id |-> gameTimer', kind |-> "clock",
                  period |-> ClockPeriod, stale |-> FALSE,
                  due |-> now + ClockPeriod],
                 [id |-> targetSpawnTimer', kind |-> "spawn",
                  period |-> targetSpawnRate[currentDifficulty],
                  stale |-> FALSE,
                  due |-> now + targetSpawnRate[currentDifficulty]]}]_vars

C10_Witness ==
    /\ Running
    /\ records = 1
    /\ configChanges = 1
    /\ timeLeft = gameDuration[currentMode]
    /\ score = 0
    /\ activeTargets = <<>>
    /\ Cardinality(intervals) = 2

(* C11: togglePause from Running yields Paused with the clock and the      *)
(* spawner stopped, so that no tick and no spawn happens while Paused;     *)
(* togglePause from Paused yields Running with a new clock and a new       *)
(* spawner, each scheduled with its full period (a new setInterval never   *)
(* carries over the time elapsed in the interval that was interrupted).    *)
C11_TogglePauseStopsAndRestarts ==
    /\ Running =>
          LET r == TogglePause(Now)
          IN  /\ r.isPlaying
              /\ r.isPaused
              /\ \A t \in r.intervals :
                    /\ t.kind = "clock" =>
                          Counters(GameTimerTick(r)) = Counters(r)
                    /\ t.kind = "spawn" =>
                          \A p \in SpawnPoints(r) :
                              Counters(SpawnTarget(r, p[1], p[2])) = Counters(r)
    /\ (isPlaying /\ isPaused) =>
          LET r == TogglePause(Now)
          IN  /\ r.isPlaying
              /\ ~r.isPaused
              /\ r.gameTimer \notin LiveIds
              /\ r.targetSpawnTimer \notin LiveIds
              /\ [id |-> r.gameTimer, kind |-> "clock",
                  period |-> ClockPeriod, stale |-> FALSE,
                  due |-> now + ClockPeriod] \in r.intervals
              /\ [id |-> r.targetSpawnTimer, kind |-> "spawn",
                  period |-> targetSpawnRate[currentDifficulty],
                  stale |-> FALSE,
                  due |-> now + targetSpawnRate[currentDifficulty]]
                        \in r.intervals

(* C12: a pause requested when the session is not Running and a resume     *)
(* requested when it is not Paused change nothing (state, counters, time,  *)
(* live timers), whether requested through togglePause, pauseGame or       *)
(* resumeGame.                                                             *)
C12_IllegalPauseResumeNoOp ==
    /\ ~isPlaying => TogglePause(Now) = Now
    /\ ~Running => PauseGame(Now) = Now
    /\ ~(isPlaying /\ isPaused) => ResumeGame(Now) = Now

(* C13: resetGame invoked while Running is ignored: state, counters, time, *)
(* active targets and timers stay as they are.                             *)
C13_ResetIgnoredWhileRunning ==
    Running =>
        LET r == ResetGame(Now)
        IN  /\ r.isPlaying
            /\ ~r.isPaused
            /\ Counters(r) = Counters(Now)
            /\ {t.id : t \in r.intervals} = LiveIds
            /\ {t.target : t \in r.timeouts} = {t.target : t \in timeouts}

(* C14: resetGame from Paused, Ended or Idle sets score, targetsHit and    *)
(* targetsMissed to 0, accuracy to 100 and timeRemaining to the current    *)
(* mode's initial value, empties the active-target set, leaves the session *)
(* not playing and not paused, and leaves the in-memory and the persisted  *)
(* leaderboard unchanged.                                                  *)
C14_ResetClearsSession ==
    ~Running =>
        LET r == ResetGame(Now)
        IN  /\ r.score = 0
            /\ r.targetsHit = 0
            /\ r.targetsMissed = 0
            /\ r.accuracy = 100
            /\ r.timeLeft = gameDuration[currentMode]
            /\ r.activeTargets = <<>>
            /\ ~r.isPlaying
            /\ ~r.isPaused
            /\ r.leaderboard = leaderboard
            /\ r.storage = storage

C14_Witness ==
    /\ ~isPlaying
    /\ ~isPaused
    /\ ~ended
    /\ records = 1
    /\ leaderboard # <<>>
    /\ storage = JsonStringify(leaderboard)
    /\ score = 0
    /\ targetsMissed = 0
    /\ accuracy = 100
    /\ timeLeft = gameDuration[currentMode]

(* C15: endGame invoked when the session is Idle, Paused or already Ended  *)
(* changes neither score nor accuracy nor the in-memory or persisted       *)
(* leaderboard; calling endGame twice in a row records one entry and       *)
(* applies the final-score formula once.                                   *)
C15_EndGameOnlyFromRunning ==
    /\ ~Running =>
          LET r == EndGame(Now)
          IN  /\ r.score = score
              /\ r.accuracy = accuracy
              /\ r.leaderboard = leaderboard
              /\ r.storage = storage
    /\ Running =>
          LET r == EndGame(Now)
          IN  /\ EndGame(r).score = r.score
              /\ EndGame(r).records = r.records

(* C16: in endless mode every clock tick increases timeRemaining by        *)
(* exactly 1 and ends nothing; a playing endless session stops playing     *)
(* only by a step of endGame or of resetGame.                              *)
C16_EndlessCountsUp ==
    [][/\ (currentMode = "endless" /\ \E t \in intervals : t.kind = "clock") =>
             LET r == GameTimerTick(Now)
             IN  /\ r.timeLeft = timeLeft + 1
                 /\ r.isPlaying = isPlaying
                 /\ r.isPaused = isPaused
                 /\ r.score = score
                 /\ r.records = records
                 /\ r.intervals = intervals
       /\ (isPlaying /\ currentMode = "endless" /\ ~isPlaying') =>
             \/ Commit(EndGame(Now))
             \/ Commit(ResetGame(Now))]_vars

C16_Witness ==
    /\ isPlaying
    /\ currentMode = "endless"
    /\ timeLeft = gameDuration.endless + 1
    /\ records = 0

(* C17: the expiry of a target that is still in the active set removes it  *)
(* and counts exactly one miss: targetsMissed + 1, accuracy recomputed,    *)
(* score and targetsHit unchanged; a single normal-difficulty target that  *)
(* is never clicked gives targetsMissed = 1, score = 0, accuracy = 0.      *)
C17_ExpiryCountsOneMiss ==
    \A t \in timeouts :
        LET i == FindIndex(activeTargets, t.target)
            r == ExpireTarget(Now, t)
        IN  i # 0 =>
                /\ r.activeTargets = Splice(activeTargets, i)
                /\ \A j \in 1..Len(r.activeTargets) :
                      r.activeTargets[j].id # t.target
                /\ r.targetsMissed = targetsMissed + 1
                /\ r.targetsHit = targetsHit
                /\ r.score = score
                /\ r.accuracy = RoundPercent(targetsHit,
                                             targetsHit + targetsMissed + 1)
                /\ (/\ currentDifficulty = "normal"
                    /\ Len(activeTargets) = 1
                    /\ targetsHit + targetsMissed = 0
                    /\ score = 0) =>
                      /\ r.targetsMissed = 1
                      /\ r.score = 0
                      /\ r.accuracy = 0
                      /\ r.activeTargets = <<>>

C17_Witness ==
    /\ currentDifficulty = "normal"
    /\ isPlaying
    /\ missClicks = 0
    /\ Cardinality(left) = 1
    /\ \A g \in left : g.by = "expiry"
    /\ targetsMissed = 1
    /\ score = 0
    /\ accuracy = 0
    /\ activeTargets = <<>>

(* C18: a click while Running at a point covered by no active target adds  *)
(* exactly 1 to targetsMissed and recomputes accuracy, leaving score,      *)
(* targetsHit and the active-target set unchanged; a click while the       *)
(* session is Paused or not playing changes nothing.                       *)
C18_MissClickCounts ==
    \A p \in ClickPoints :
        LET r == HandleCanvasClick(Now, p[1], p[2])
        IN  /\ (/\ Running
                /\ \A i \in 1..Len(activeTargets) :
                      ~Inside(activeTargets[i], p[1], p[2])) =>
                  /\ r.targetsMissed = targetsMissed + 1
                  /\ r.accuracy = RoundPercent(targetsHit,
                                               targetsHit + targetsMissed + 1)
                  /\ r.score = score
                  /\ r.targetsHit = targetsHit
                  /\ r.activeTargets = activeTargets
            /\ ~Running => r = Now

C18_Witness ==
    /\ Running
    /\ missClicks = 1
    /\ targetsMissed = 1
    /\ accuracy = 0
    /\ score = 0
    /\ Len(activeTargets) = 1
    /\ \E p \in ClickPoints : ~Inside(activeTargets[1], p[1], p[2])

(* C19: for a point (x, y) checkTargetHit returns the most recently        *)
(* spawned active target whose centre is within its own radius of the      *)
(* point (distance <= radius) and null when no active target contains the  *)
(* point; clicks and hover use this same rule.                             *)
C19_SelectionRule ==
    \A p \in PointerPoints :
        LET covering ==
                {i \in 1..Len(activeTargets) :
                    (p[1] - activeTargets[i].x) * (p[1] - activeTargets[i].x)
                    + (p[2] - activeTargets[i].y) * (p[2] - activeTargets[i].y)
                        <= activeTargets[i].radius * activeTargets[i].radius}
            i == CheckTargetHit(activeTargets, p[1], p[2])
            click == HandleCanvasClick(Now, p[1], p[2])
            hover == HandleCanvasMouseMove(Now, p[1], p[2])
        IN  /\ i = 0 <=> covering = {}
            /\ i # 0 =>
                  /\ i \in covering
                  /\ \A j \in covering :
                        activeTargets[j].id <= activeTargets[i].id
            /\ Running =>
                  /\ click.threw <=> covering # {}
                  /\ click.targetsMissed = targetsMissed + 1 <=> covering = {}
                  /\ Len(hover.activeTargets) = Len(activeTargets)
                  /\ \A j \in 1..Len(activeTargets) :
                        /\ hover.activeTargets[j].isHover <=> j = i
                        /\ hover.activeTargets[j].id = activeTargets[j].id

C19_Witness ==
    /\ Running
    /\ Len(activeTargets) = 3
    /\ \E p \in PointerPoints :
          /\ ~Inside(activeTargets[3], p[1], p[2])
          /\ Inside(activeTargets[2], p[1], p[2])
          /\ Inside(activeTargets[1], p[1], p[2])
          /\ activeTargets[1].x # activeTargets[2].x
          /\ activeTargets[2].isHover
          /\ ~activeTargets[1].isHover
          /\ ~activeTargets[3].isHover

(* C20: with two overlapping active targets covering the same point, one   *)
(* click at that point removes exactly one target, the most recently       *)
(* spawned one, leaves the other in the active set and increments          *)
(* targetsHit by exactly 1.                                                *)
C20_OverlapClickRemovesNewest ==
    Running =>
        \A p \in PointerPoints :
            LET covering == {i \in 1..Len(activeTargets) :
                                Inside(activeTargets[i], p[1], p[2])}
                r == HandleCanvasClick(Now, p[1], p[2])
            IN  Cardinality(covering) = 2 =>
                    \E i \in covering :
                        /\ \A j \in covering :
                              activeTargets[j].id <= activeTargets[i].id
                        /\ r.activeTargets = Splice(activeTargets, i)
                        /\ r.targetsHit = targetsHit + 1

(* C21: a pointer-move event in any state leaves score, targetsHit,        *)
(* targetsMissed, accuracy, timeRemaining and the membership of the        *)
(* active-target set unchanged; it only marks the target under the pointer.*)
C21_HoverReadOnly ==
    \A p \in ClickPoints \cup BadPointerPoints :
        LET r == HandleCanvasMouseMove(Now, p[1], p[2])
        IN  /\ r.score = score
            /\ r.targetsHit = targetsHit
            /\ r.targetsMissed = targetsMissed
            /\ r.accuracy = accuracy
            /\ r.timeLeft = timeLeft
            /\ Len(r.activeTargets) = Len(activeTargets)
            /\ \A i \in 1..Len(activeTargets) :
                  r.activeTargets[i] =
                      [activeTargets[i] EXCEPT !.isHover = r.activeTargets[i].isHover]
            /\ [r EXCEPT !.activeTargets = activeTargets] = Now

C21_Witness ==
    /\ isPlaying
    /\ isPaused
    /\ Len(activeTargets) = 2
    /\ activeTargets[2].isHover
    /\ ~activeTargets[1].isHover
    /\ targetsMissed = 1

(* C22: no target is added to the active set while the session is Idle,   *)
(* Paused or Ended, and every spawn tick while Running adds exactly one    *)
(* target, which carries the radius and the lifetime of the current        *)
(* difficulty.                                                             *)
C22_SpawnOnlyWhileRunning ==
    [][/\ \A p \in SamplePoints :
             LET r == SpawnTarget(Now, p[1], p[2])
             IN  /\ ~Running => r.activeTargets = activeTargets
                 /\ Running =>
                       /\ Len(r.activeTargets) = Len(activeTargets) + 1
                       /\ SubSeq(r.activeTargets, 1, Len(activeTargets))
                             = activeTargets
                       /\ r.activeTargets[Len(r.activeTargets)].radius
                             = targetSize[currentDifficulty]
                       /\ r.activeTargets[Len(r.activeTargets)].lifetime
                             = targetLifetime[currentDifficulty]
       /\ Len(activeTargets') > Len(activeTargets) =>
             /\ Running
             /\ Running'
             /\ Len(activeTargets') = Len(activeTargets) + 1]_vars

C22_Witness ==
    /\ Running
    /\ currentDifficulty = "expert"
    /\ Len(activeTargets) = 2
    /\ \A i \in 1..2 :
          /\ activeTargets[i].radius = targetSize.expert
          /\ activeTargets[i].lifetime = targetLifetime.expert
    /\ Cardinality(intervals) > 2

(* C28: a click whose x or y coordinate is not a finite number is rejected *)
(* as a no-op: targetsHit, targetsMissed, accuracy, score and the active   *)
(* targets are unchanged.                                                  *)
C28_NonFiniteClickRejected ==
    \A p \in BadPointerPoints :
        Counters(HandleCanvasClick(Now, p[1], p[2])) = Counters(Now)

(* C29: a difficulty or mode change requested while a session is Running   *)
(* or Paused is ignored, so the multiplier and the mode used when the      *)
(* session ends are the ones it was started with.                          *)
C29_ConfigFixedWhilePlaying ==
    [][/\ isPlaying =>
             /\ currentDifficulty' = currentDifficulty
             /\ currentMode' = currentMode
       /\ (isPlaying /\ records' = records + 1) =>
             /\ lastEntry'.difficulty = currentDifficulty
             /\ lastEntry'.mode = currentMode]_vars

C29_Witness ==
    /\ ended
    /\ records = 1
    /\ configChanges = 1
    /\ lastEntry.difficulty = "expert"
    /\ lastEntry.score = 1000 * scoreMultiplier.expert

(* C30: a visibility loss while Running pauses the session (Paused, clock  *)
(* and spawner stopped, so that no tick changes the paused session); a     *)
(* visibility event while the session is Paused or not playing changes     *)
(* nothing and never resumes.                                              *)
C30_VisibilityLossPauses ==
    /\ Running =>
          LET r == HandleVisibilityChange(Now, TRUE)
          IN  /\ r.isPlaying
              /\ r.isPaused
              /\ \A t \in r.intervals :
                    /\ t.kind = "clock" =>
                          Counters(GameTimerTick(r)) = Counters(r)
                    /\ t.kind = "spawn" =>
                          \A p \in SpawnPoints(r) :
                              Counters(SpawnTarget(r, p[1], p[2])) = Counters(r)
    /\ ~Running => HandleVisibilityChange(Now, TRUE) = Now
    /\ HandleVisibilityChange(Now, FALSE) = Now

Entries(board) == {board[i] : i \in 1..Len(board)}

IsSortedDesc(board) ==
    \A i \in 1..Len(board) : \A j \in 1..Len(board) :
        i < j => board[i].score >= board[j].score

(* C25: recording a result appends one entry {score, accuracy, difficulty, *)
(* mode, date}, sorts all entries by score descending, keeps the first 10  *)
(* and persists exactly that list: after every record the persisted list   *)
(* equals the in-memory list, has at most 10 entries and is sorted         *)
(* descending, and what is dropped is never above what is kept.            *)
C25_RecordSortsCutsPersists ==
    [][/\ Len(leaderboard') <= LeaderboardCap
       /\ IsSortedDesc(leaderboard')
       /\ records' = records + 1 =>
             /\ lastEntry' = [score |-> score', accuracy |-> accuracy',
                              difficulty |-> currentDifficulty',
                              mode |-> currentMode', date |-> records']
             /\ storage' = JsonStringify(leaderboard')
             /\ JsonParse(storage').value = leaderboard'
             /\ Len(leaderboard') =
                   IF Len(leaderboard) < LeaderboardCap
                   THEN Len(leaderboard) + 1 ELSE LeaderboardCap
             /\ Entries(leaderboard') \subseteq
                   Entries(leaderboard) \cup {lastEntry'}
             /\ \A e \in (Entries(leaderboard) \cup {lastEntry'})
                            \ Entries(leaderboard') :
                   \A k \in Entries(leaderboard') : k.score >= e.score]_vars

C25_Witness ==
    /\ records = MaxBoardRecords
    /\ Len(leaderboard) = LeaderboardCap
    /\ storage = JsonStringify(leaderboard)
    /\ \A i \in 1..(LeaderboardCap - 1) :
          leaderboard[i].score > leaderboard[i + 1].score
    /\ leaderboard[1].date = 11
    /\ leaderboard[LeaderboardCap].date = 2

(* C26: entries with equal score keep their relative insertion order after *)
(* every record: a new entry that ties existing entries is placed after    *)
(* them, and is the one dropped when the tie straddles the 10-entry cut.   *)
C26_StableOrder ==
    [][/\ \A i \in 1..Len(leaderboard') : \A j \in 1..Len(leaderboard') :
             (i < j /\ leaderboard'[i].score = leaderboard'[j].score) =>
                 leaderboard'[i].date < leaderboard'[j].date
       /\ (/\ records' = records + 1
           /\ Len(leaderboard) = LeaderboardCap
           /\ lastEntry'.score = leaderboard[LeaderboardCap].score) =>
             leaderboard' = leaderboard]_vars

C26_Witness ==
    /\ records = MaxBoardRecords
    /\ Len(leaderboard) = LeaderboardCap
    /\ lastEntry.score = leaderboard[LeaderboardCap].score
    /\ lastEntry.date = MaxBoardRecords
    /\ \A i \in 1..LeaderboardCap : leaderboard[i].date # MaxBoardRecords
    /\ leaderboard[1].score > leaderboard[2].score
    /\ leaderboard[2].score = leaderboard[3].score
    /\ leaderboard[2].date < leaderboard[3].date

(* C23: every spawned target lies fully inside the playfield, whatever the *)
(* playfield's width and height and the difficulty:                        *)
(* radius <= x <= width - radius and radius <= y <= height - radius.       *)
C23_TargetsInsidePlayfield ==
    \A i \in 1..Len(activeTargets) :
        /\ activeTargets[i].radius = targetSize[currentDifficulty]
        /\ activeTargets[i].radius <= activeTargets[i].x
        /\ activeTargets[i].x <= canvasWidth - activeTargets[i].radius
        /\ activeTargets[i].radius <= activeTargets[i].y
        /\ activeTargets[i].y <= canvasHeight - activeTargets[i].radius

(* C27: malformed persisted leaderboard data (text that cannot be parsed,  *)
(* or a parsed value that is not an array) is treated as no history: init  *)
(* completes with the module initialized and the handlers bound,           *)
(* getLeaderboard returns the empty list, and a later endGame records its  *)
(* entry without raising an error.                                         *)
C27_MalformedHistoryIgnored ==
    (~isInitialized /\ storage \in {Unparseable, NotAnArray}) =>
        \A w \in CanvasSizes : \A h \in CanvasSizes :
            LET r == InitModule(Now, w, h)
            IN  /\ ~r.threw
                /\ r.isInitialized
                /\ r.eventsBound
                /\ ~GetLeaderboard(r).threw
                /\ GetLeaderboard(r).value = <<>>
                /\ ~EndGame(r).threw
                /\ EndGame(r).records = records + 1

-----------------------------------------------------------------------------
(* Exceptions, keyboard, timers, ranges and rendering *)

(* C31: no operation of an initialized engine fails: in every reachable    *)
(* state startGame, togglePause, resetGame, endGame, a canvas click (on a  *)
(* target or on empty space), a pointer move and the key commands return   *)
(* normally, without raising an exception.                                 *)
C31_NoOperationFails ==
    isInitialized =>
        /\ ~StartGame(Now).threw
        /\ ~TogglePause(Now).threw
        /\ ~ResetGame(Now).threw
        /\ ~EndGame(Now).threw
        /\ \A p \in ClickPoints :
              /\ ~HandleCanvasClick(Now, p[1], p[2]).threw
              /\ ~HandleCanvasMouseMove(Now, p[1], p[2]).threw
        /\ \A key \in Keys : ~HandleKeydown(Now, key).threw

(* C31, the click alone: a click on a target raises where a click on empty *)
(* space does not.                                                         *)
C31_ClickNeverFails ==
    \A p \in ClickPoints : ~HandleCanvasClick(Now, p[1], p[2]).threw


(* C32: keyboard commands.  Space starts a session when none is playing    *)
(* and toggles the pause when one is playing; Escape pauses a Running      *)
(* session and does nothing when the session is Paused or not playing (it  *)
(* never resumes); R resets only when no session is playing and is ignored *)
(* while one is playing (Running or Paused).                               *)
C32_KeyCommands ==
    LET space == HandleKeydown(Now, " ")
        escape == HandleKeydown(Now, "Escape")
    IN  /\ ~isPlaying =>
              /\ space.isPlaying /\ ~space.isPaused
              /\ space = StartGame(Now)
              /\ space.gameTimer # NoTimer
              /\ space.targetSpawnTimer # NoTimer
              /\ space.timeLeft = gameDuration[currentMode]
              /\ escape = Now
        /\ Running =>
              /\ space.isPlaying /\ space.isPaused
              /\ escape.isPlaying /\ escape.isPaused
              /\ escape = TogglePause(Now)
              /\ space = escape
        /\ (isPlaying /\ isPaused) =>
              /\ space.isPlaying /\ ~space.isPaused
              /\ space = TogglePause(Now)
              /\ escape = Now
        /\ \A key \in {"r", "R"} :
              LET r == HandleKeydown(Now, key)
              IN  /\ isPlaying => r = Now
                  /\ ~isPlaying =>
                        /\ ~r.isPlaying /\ ~r.isPaused
                        /\ r.score = 0
                        /\ r.targetsHit = 0
                        /\ r.targetsMissed = 0
                        /\ r.accuracy = 100
                        /\ r.timeLeft = gameDuration[currentMode]
                        /\ r.activeTargets = <<>>

C32_Witness ==
    /\ isPlaying
    /\ isPaused
    /\ targetsMissed > 0
    /\ HandleKeydown(Now, "Escape") = Now
    /\ HandleKeydown(Now, "r") = Now
    /\ ~HandleKeydown(Now, " ").isPaused


(* C33: timer invariant.  After any sequence of public operations and      *)
(* timer firings at most one session-clock interval and at most one        *)
(* spawner interval are live, neither is live unless the session is        *)
(* Running, and every interval that has been created and not cleared is    *)
(* the one referenced by gameTimer or by targetSpawnTimer.                 *)
C33_TimerInvariant ==
    /\ Cardinality({t \in intervals : t.kind = "clock"}) <= 1
    /\ Cardinality({t \in intervals : t.kind = "spawn"}) <= 1
    /\ intervals # {} => Running
    /\ \A t \in intervals :
          /\ t.kind = "clock" => t.id = gameTimer
          /\ t.kind = "spawn" => t.id = targetSpawnTimer

(* C33, the first part alone: never two clocks or two spawners *)
C33_AtMostOneOfEachKind ==
    /\ Cardinality({t \in intervals : t.kind = "clock"}) <= 1
    /\ Cardinality({t \in intervals : t.kind = "spawn"}) <= 1


(* C34: timeRemaining is never negative, and during a timed session        *)
(* (Running or Paused) it stays between 0 and 30.                          *)
C34_TimeRemainingInRange ==
    /\ timeLeft >= 0
    /\ (isPlaying /\ currentMode = "timed") =>
          timeLeft \in 0..gameDuration.timed


(* C35: state encoding.  In every reachable state isPaused implies         *)
(* isPlaying: the pair (isPlaying, isPaused) is never (false, true), and   *)
(* no operation or clock tick applied to a reachable state produces it.    *)
C35_PausedImpliesPlaying ==
    /\ isPaused => isPlaying
    /\ StartGame(Now).isPaused => StartGame(Now).isPlaying
    /\ TogglePause(Now).isPaused => TogglePause(Now).isPlaying
    /\ PauseGame(Now).isPaused => PauseGame(Now).isPlaying
    /\ ResumeGame(Now).isPaused => ResumeGame(Now).isPlaying
    /\ ResetGame(Now).isPaused => ResetGame(Now).isPlaying
    /\ EndGame(Now).isPaused => EndGame(Now).isPlaying
    /\ GameTimerTick(Now).isPaused => GameTimerTick(Now).isPlaying
    /\ \A key \in Keys :
          HandleKeydown(Now, key).isPaused => HandleKeydown(Now, key).isPlaying

(* A Paused session of a second run whose end and whose reset both leave   *)
(* the pause flag cleared                                                  *)
C35_Witness ==
    /\ isPlaying
    /\ isPaused
    /\ records = 1
    /\ ~EndGame(Now).isPlaying /\ ~EndGame(Now).isPaused
    /\ ~ResetGame(Now).isPlaying /\ ~ResetGame(Now).isPaused
    /\ ~TogglePause(EndGame(Now)).isPaused


(* C36: whenever no session is playing (Idle or Ended) the set of active   *)
(* targets is empty: stopping, ending or resetting clears it, and no       *)
(* callback (spawner, expiry, clock, frame) or pointer event adds a target *)
(* afterwards.                                                             *)
C36_NoTargetsUnlessPlaying ==
    /\ ~isPlaying => activeTargets = <<>>
    /\ StopGame(Now).activeTargets = <<>> \/ StopGame(Now).isPlaying
    /\ EndGame(Now).activeTargets = <<>> \/ EndGame(Now).isPlaying
    /\ ResetGame(Now).activeTargets = <<>>
    /\ ~isPlaying =>
          /\ \A p \in SamplePoints :
                SpawnTarget(Now, p[1], p[2]).activeTargets = <<>>
          /\ \A t \in timeouts : ExpireTarget(Now, t).activeTargets = <<>>
          /\ GameTimerTick(Now).activeTargets = <<>>
          /\ RenderFrame(Now).activeTargets = <<>>
          /\ \A p \in ClickPoints :
                /\ HandleCanvasClick(Now, p[1], p[2]).activeTargets = <<>>
                /\ HandleCanvasMouseMove(Now, p[1], p[2]).activeTargets = <<>>

(* A finished session that had two targets on the field, with a spawner    *)
(* and expiry timeouts still pending                                       *)
C36_Witness ==
    /\ ~isPlaying
    /\ ended
    /\ nextTargetId = 3
    /\ activeTargets = <<>>
    /\ timeouts # {}
    /\ \E t \in intervals : t.kind = "spawn"


(* C37: rendering follows the session.  Whenever the session is Running a  *)
(* next render frame is scheduled, also after a pause followed by a        *)
(* resume: a frame callback that fires while Paused does not leave a later *)
(* Running session without a render loop.                                  *)
C37_RunningHasFrame ==
    Running => frames > 0

=============================================================================
